---- MODULE Spec2Model ----
(***************************************************************************)
(* Model of the email task manager backend:                                *)
(*   utils/rate_limiter.py  RateLimiter.is_allowed, ratelimit              *)
(*   routes/emails.py       process_emails                                 *)
(*   routes/auth.py         google_callback, logout, refresh_token         *)
(*   routes/tasks.py        complete_task, incomplete_task                 *)
(*   services/gmail_service.py  _build_service, get_unprocessed_emails     *)
(*   services/ai_service.py AIService.extract_tasks, _parse_ai_response    *)
(*   utils/validators.py    validate_email_content, validate_task_data     *)
(*   utils/encryption.py    TokenEncryption                                *)
(*   models/email.py, models/task.py, models/user.py  the three tables     *)
(*                                                                         *)
(* The specifications share the variables:                                 *)
(*   Spec      requests to POST /process running concurrently, each with   *)
(*             its own database session, against one database;             *)
(*   SpecSeq, SpecTwice, SpecRetry  one worker serving the requests in     *)
(*             turn, with a log of how the last run of each user ended;    *)
(*   SpecCount, SpecFrame, SpecLive  one worker, with messages and AI      *)
(*             responses of every shape, the task routes and time, and a   *)
(*             worker that goes on to its return statement;                *)
(*   SpecCred  the requests that read or write a user's credential,        *)
(*             running concurrently;                                       *)
(*   SpecAdmit one worker, with a log of the admitted requests and how     *)
(*             they were answered;                                         *)
(*   SpecParse, SpecBody  extract_tasks and _extract_body on every input;  *)
(*   SpecAuth  one worker, with the auth routes and key changes;           *)
(*   SpecTasks one worker, with AI responses of every shape and the task   *)
(*             routes;                                                     *)
(*   SpecFetch one worker, with messages of every shape and failing gets;  *)
(*   SpecCrypt encrypt_token and decrypt_token on every input;             *)
(*   SpecGate  threads calling RateLimiter.is_allowed step by step, under  *)
(*             its lock, followed by the decorated function;               *)
(*   SpecRate  is_allowed with the decorator's arguments of process_emails *)
(*             (limit 5, window 300 s) and a log of the calls.             *)
(***************************************************************************)
EXTENDS Integers, Sequences, FiniteSets, TLC

(***************************************************************************)
(* Program constants.                                                      *)
(***************************************************************************)
LIMIT == 5
WINDOW == 300
SUBJECT_MAX == 500
BODY_MAX == 50000
DESC_MAX == 1000

(***************************************************************************)
(* Bounds of the model.                                                    *)
(***************************************************************************)
NumProcs == 2
NumThreads == 3
MaxLimit == 2
MaxWindow == 2
GateTicks == 2
MaxCalls == 11
RateTicks == 2
NumUsers == 2
MaxFetch == 2
MaxTicks == 1
MaxAdmit == 3
NumKeys == 3
NumIVs == 2
TokenLife == 2

Procs == 1..NumProcs
Threads == 1..NumThreads
Users == 1..NumUsers
GmailIds == 1..MaxFetch
Keys == 1..NumKeys
IVs == 1..NumIVs

VARIABLES
    now,        \* time.time(), in seconds
    ticks,      \* number of clock steps taken
    clients,    \* RateLimiter.clients: key -> deque of admitted timestamps
    users,      \* table users: id -> row
    emails,     \* table emails: the committed rows
    tasks,      \* table tasks: the committed rows
    session,    \* db.session of each request: rows added and not yet committed
    req,        \* each request's position and local variables
    lastOK,     \* per user, how the last logged run ended and what it had fetched
    gate,       \* the arguments (limit, window) the limiter is called with
    lock,       \* RateLimiter.lock: the thread that holds it, or 0
    thr,        \* each thread's position in decorated_function / is_allowed
    hist,       \* per key, every timestamp is_allowed has admitted
    calls,      \* per key, every is_allowed call: its time and its result
                \* (SpecAdmit: the admitted requests of the window, their
                \* time and their answer)
    key,        \* TokenEncryption.key of the running process
    last        \* the last one-step operation: its name, arguments and result

ingest == <<users, emails, tasks, session, req, lastOK>>
limiter == <<gate, lock, thr, hist, calls>>
env == <<key, last>>
vars == <<now, ticks, clients, users, emails, tasks, session, req, lastOK,
          gate, lock, thr, hist, calls, key, last>>

None == "None"

\* no one-step operation has been called yet
NoCall == [op |-> None]

Max(S) == IF S = {} THEN 0 ELSE CHOOSE x \in S : \A y \in S : y <= x

(***************************************************************************)
(* Python values.  A string is modelled by its length profile: `lead` and  *)
(* `trail` whitespace characters around a `core`, and `esc`, the number of *)
(* characters html.escape adds to the core.  Other values carry only their *)
(* type.                                                                   *)
(***************************************************************************)
Str(lead, core, trail, esc) ==
    [type |-> "str", lead |-> lead, core |-> core, trail |-> trail, esc |-> esc]

PyNone == [type |-> "NoneType"]
PyInt == [type |-> "int"]
Missing == [type |-> "missing"]
EmptyStr == Str(0, 0, 0, 0)

len(s) == s.lead + s.core + s.trail

falsy(v) == v.type = "NoneType" \/ (v.type = "str" /\ len(v) = 0)

strip(s) == Str(0, s.core, 0, s.esc)

html_escape(s) == Str(s.lead, s.core + s.esc, s.trail, 0)

truncate(s, n) ==
    IF len(s) <= n THEN s
    ELSE IF s.lead >= n THEN Str(n, 0, 0, 0)
    ELSE IF s.lead + s.core >= n THEN Str(s.lead, n - s.lead, 0, 0)
    ELSE Str(s.lead, s.core, n - s.lead - s.core, 0)

\* mutant: the sanitized text is not cut at max_length
sanitize_text_uncut(text, max_length) ==
    IF falsy(text) THEN EmptyStr ELSE html_escape(strip(text))

\* validators.py sanitize_text; max_length 0 stands for None
sanitize_text(text, max_length) ==
    IF falsy(text) THEN EmptyStr
    ELSE LET sanitized == html_escape(strip(text))
         IN  IF max_length # 0 /\ len(sanitized) > max_length
             THEN truncate(sanitized, max_length)
             ELSE sanitized

\* mutant: every priority is taken as valid
validate_priority_any(priority) == TRUE

validate_priority(priority) == priority \in {"High", "Medium", "Low"}

validate_category(category) ==
    category \in {"Follow-up", "Meeting Prep", "Purchase", "General",
                  "Review", "Approval", "Schedule", "Research"}

\* mutant: the subject and the body are not checked
validate_email_content_unchecked(subject, body) ==
    [ok |-> TRUE,
     subject |-> sanitize_text(subject, SUBJECT_MAX),
     body |-> IF falsy(body) THEN EmptyStr ELSE sanitize_text(body, BODY_MAX)]

\* validators.py validate_email_content: [ok, subject, body]
validate_email_content(subject, body) ==
    LET subject_bad == falsy(subject) \/ len(strip(subject)) = 0
                       \/ len(subject) > SUBJECT_MAX
        body_bad == ~falsy(body) /\ len(body) > BODY_MAX
    IN  IF subject_bad \/ body_bad
        THEN [ok |-> FALSE, subject |-> EmptyStr, body |-> EmptyStr]
        ELSE [ok |-> TRUE,
              subject |-> sanitize_text(subject, SUBJECT_MAX),
              body |-> IF falsy(body) THEN EmptyStr ELSE sanitize_text(body, BODY_MAX)]

\* validators.py validate_task_data: [ok, description, priority, category];
\* a priority or category of None is falsy and takes the default
validate_task_data(description, priority, category) ==
    LET desc_bad == falsy(description) \/ len(strip(description)) = 0
                    \/ len(description) > DESC_MAX
        prio_bad == priority # None /\ ~validate_priority(priority)
        cat_bad == category # None /\ ~validate_category(category)
    IN  IF desc_bad \/ prio_bad \/ cat_bad
        THEN [ok |-> FALSE, description |-> EmptyStr, priority |-> None, category |-> None]
        ELSE [ok |-> TRUE,
              description |-> sanitize_text(description, DESC_MAX),
              priority |-> IF priority = None THEN "Medium" ELSE priority,
              category |-> IF category = None THEN "General" ELSE category]

(***************************************************************************)
(* AIService.  A completion is [kind, items]: the call raises ("raise"),   *)
(* or returns text that is not JSON ("notjson") or a JSON array ("array")  *)
(* of items; an item is a candidate object with the keys description,      *)
(* priority, category ("<absent>" for an absent key).                      *)
(***************************************************************************)
Absent == "<absent>"

Candidate(d, p, c) == [type |-> "dict", description |-> d, priority |-> p, category |-> c]

\* ai_service.py _parse_ai_response, lines 103-124, one element of the loop:
\* [raised, keep, task]
ParseItem(task) ==
    IF task.type # "dict" \/ task.description.type = "missing"
    THEN [raised |-> FALSE, keep |-> FALSE, task |-> task]
    ELSE IF task.description.type # "str"
    THEN [raised |-> TRUE, keep |-> FALSE, task |-> task]   \* .strip() of a non-string
    ELSE LET description == strip(task.description)
             priority == IF task.priority = Absent THEN "Medium" ELSE task.priority
             category == IF task.category = Absent THEN "General" ELSE task.category
         IN  [raised |-> FALSE,
              keep |-> len(description) > 0,
              task |-> [description |-> description,
                        priority |-> IF validate_priority(priority) THEN priority ELSE "Medium",
                        category |-> IF validate_category(category) THEN category ELSE "General"]]

RECURSIVE ParseItems(_)
ParseItems(items) ==
    IF items = <<>> THEN [raised |-> FALSE, tasks |-> <<>>]
    ELSE LET first == ParseItem(Head(items))
             rest == ParseItems(Tail(items))
         IN  IF first.raised \/ rest.raised THEN [raised |-> TRUE, tasks |-> <<>>]
             ELSE [raised |-> FALSE,
                   tasks |-> IF first.keep THEN <<first.task>> \o rest.tasks ELSE rest.tasks]

\* a completion text: what opens it and what closes it (a markdown fence or
\* nothing), the type of the JSON value in between ("invalid" when it is not
\* JSON) and, for an array, its elements
Text(open, type, items, close) ==
    [kind |-> "text", open |-> open, type |-> type, items |-> items, close |-> close]

\* ai_service.py lines 91-94: a leading fence with the word json and a
\* trailing fence are cut
Unfenced(response) ==
    [response EXCEPT !.open = IF @ = "fence json" THEN "" ELSE @,
                     !.close = IF @ = "fence" THEN "" ELSE @]

\* mutant: the elements of the array are returned as they came
_parse_ai_response_unfiltered(response) ==
    IF response.kind \in {"array", "text"} THEN response.items ELSE <<>>

\* ai_service.py _parse_ai_response: every exception is caught and gives [].
\* A response of kind "array" is the bare text of a JSON array.  json.loads
\* raises for a text that is not JSON or still has a fence around it; the
\* loop gets the keys of an object and the characters of a string, which are
\* no dicts, and raises TypeError for a number, a boolean or null.
_parse_ai_response(response) ==
    IF response.kind = "array" THEN ParseItems(response.items).tasks
    ELSE IF response.kind = "text"
    THEN LET text == Unfenced(response)
         IN  IF text.open # "" \/ text.close # "" \/ text.type # "array"
             THEN <<>>
             ELSE ParseItems(text.items).tasks
    ELSE <<>>

\* mutant: the exception of the completion call is not caught
extract_tasks_raising(response) ==
    IF response.kind \in {"raise", "timeout"} THEN [raised |-> TRUE, tasks |-> <<>>]
    ELSE [raised |-> FALSE, tasks |-> _parse_ai_response(response)]

\* ai_service.py extract_tasks: [raised, tasks]; the except clause returns []
extract_tasks(response) ==
    IF response.kind \in {"raise", "timeout"} THEN [raised |-> FALSE, tasks |-> <<>>]
    ELSE [raised |-> FALSE, tasks |-> _parse_ai_response(response)]

(***************************************************************************)
(* RateLimiter.                                                            *)
(***************************************************************************)
\* rate_limiter.py lines 28-30: drop the entries older than now - window
RECURSIVE Evict(_, _, _)
Evict(q, t, window) ==
    IF q # <<>> /\ Head(q) < t - window THEN Evict(Tail(q), t, window) ELSE q

\* mutant: the comparison with the limit is off by one
LimitExceeded_gt(q, limit) == Len(q) > limit

\* rate_limiter.py lines 33-34
LimitExceeded(q, limit) == Len(q) >= limit

\* mutant: the timestamp is recorded before the limit is checked
is_allowed_records_first(q, t, limit, window) ==
    LET kept == Evict(q, t, window)
    IN  [ok |-> ~LimitExceeded(kept, limit), q |-> Append(kept, t)]

\* mutant: an admitted call is not recorded
is_allowed_forgets(q, t, limit, window) ==
    LET kept == Evict(q, t, window)
    IN  [ok |-> ~LimitExceeded(kept, limit), q |-> kept]

\* rate_limiter.py is_allowed, the body under the lock: [ok, q]
is_allowed(q, t, limit, window) ==
    LET kept == Evict(q, t, window)
    IN  IF LimitExceeded(kept, limit)
        THEN [ok |-> FALSE, q |-> kept]
        ELSE [ok |-> TRUE, q |-> Append(kept, t)]

(***************************************************************************)
(* utils/encryption.py TokenEncryption.  A token is a string (None for     *)
(* Python's None).  What Fernet(key).encrypt returns for a plaintext is a  *)
(* text determined by the key, the plaintext and the random IV it drew;    *)
(* Fernet(key).decrypt accepts exactly the texts produced under its key    *)
(* and raises InvalidToken for every other one.                            *)
(***************************************************************************)
Tokens == {"t1", "t2", "t3"}

NoToken(token) == token \in {None, ""}

Fernet(k, plain, iv) == [type |-> "fernet", key |-> k, plain |-> plain, iv |-> iv]

\* a text that no Fernet key produced: a ciphertext with bytes changed
Garbled(c) == [type |-> "garbled", key |-> c.key, plain |-> c.plain, iv |-> c.iv]

EmptyText == [type |-> "str", key |-> 0, plain |-> "", iv |-> 0]

NoText == [type |-> "NoneType", key |-> 0, plain |-> None, iv |-> 0]

\* encryption.py lines 29-33
encrypt_token(token, k, iv) ==
    IF NoToken(token) THEN NoText ELSE Fernet(k, token, iv)

\* mutant: InvalidToken is not caught
decrypt_token_uncaught(encrypted_token, k) ==
    IF encrypted_token.type \in {"NoneType", "str"}
    THEN [raised |-> FALSE, value |-> None]
    ELSE IF encrypted_token.type = "fernet" /\ encrypted_token.key = k
    THEN [raised |-> FALSE, value |-> encrypted_token.plain]
    ELSE [raised |-> TRUE, value |-> None]

\* encryption.py lines 35-42: [raised, value]
decrypt_token(encrypted_token, k) ==
    IF encrypted_token.type \in {"NoneType", "str"}
    THEN [raised |-> FALSE, value |-> None]
    ELSE IF encrypted_token.type = "fernet" /\ encrypted_token.key = k
    THEN [raised |-> FALSE, value |-> encrypted_token.plain]
    ELSE [raised |-> FALSE, value |-> None]

Ciphertexts == {Fernet(k, t, iv) : k \in Keys, t \in Tokens, iv \in IVs}

StoredTexts == Ciphertexts \cup {Garbled(c) : c \in Ciphertexts} \cup {EmptyText, NoText}

(***************************************************************************)
(* models/user.py.  A users row holds gmail_connected, the two token       *)
(* columns (what encrypt_token returned, or NULL) and gmail_token_expiry   *)
(* (NoExpiry for NULL).                                                    *)
(***************************************************************************)
NoExpiry == -1

\* user.py lines 26-31: the hybrid property decrypts the column
gmail_access_token(user) == decrypt_token(user.gmail_access_token, key).value

\* user.py lines 41-46
gmail_refresh_token(user) == decrypt_token(user.gmail_refresh_token, key).value

\* user.py lines 33-39 and 48-54: the setters encrypt the value, NULL if falsy
StoreToken(value, iv) == IF NoToken(value) THEN NoText ELSE encrypt_token(value, key, iv)

\* google.oauth2.credentials.Credentials(token=..., refresh_token=...): the
\* expiry is not passed and stays None
Credentials(token, refresh) ==
    [token |-> token, refresh_token |-> refresh, expiry |-> NoExpiry]

NoCredentials == Credentials(None, None)

\* google.auth Credentials.expired: False without an expiry
expired(credentials, t) == credentials.expiry # NoExpiry /\ t >= credentials.expiry

\* a request can be authorized: there is a token, or one can be asked for
Usable(credentials) ==
    ~NoToken(credentials.token) \/ ~NoToken(credentials.refresh_token)

(***************************************************************************)
(* The database.  models/email.py, models/task.py.                         *)
(***************************************************************************)
\* a timestamp column that is NULL
NoTime == -1

EmailRow(id, user_id, gmail_id) ==
    [id |-> id, user_id |-> user_id, gmail_id |-> gmail_id, processed |-> FALSE,
     processed_at |-> NoTime]

\* models/email.py mark_processed, at time t
mark_processed(row, t) == [row EXCEPT !.processed = TRUE, !.processed_at = t]

TaskRow(user_id, email_id, v) ==
    [user_id |-> user_id, email_id |-> email_id, description |-> v.description,
     priority |-> v.priority, category |-> v.category, completed |-> FALSE,
     completed_at |-> NoTime]

EmptySession == [emails |-> {}, tasks |-> <<>>]

\* mutant: the duplicate check finds nothing
existing_email_unchecked(rows, gmail_id, user_id) == FALSE

\* emails.py line 42: Email.query.filter_by(gmail_id=..., user_id=...).first(),
\* over the committed rows and the rows this session has flushed
existing_email(rows, gmail_id, user_id) ==
    \E e \in rows : e.gmail_id = gmail_id /\ e.user_id = user_id

\* mutant: the emails table without its unique index
GmailIdNeverTaken(rows, gmail_id) == FALSE

\* models/email.py line 11: the unique index on emails.gmail_id
GmailIdTaken(rows, gmail_id) == \E e \in rows : e.gmail_id = gmail_id

PendingEmails(others) == UNION {session[q].emails : q \in others}

\* a primary key no row of the table holds
FreeId(used) == CHOOSE i \in 1..(Cardinality(used) + 1) :
                    i \notin used /\ \A j \in 1..(i - 1) : j \in used

\* the primary key the database gives to a flushed emails row
NextEmailId == FreeId({e.id : e \in emails \cup PendingEmails(Procs)})

\* mutant: the tasks were never added to the session
CommitTasks_lost(committed, pending) == committed

\* mutant: only the first pending task is written
CommitTasks_first(committed, pending) ==
    LET base == Max({t.id : t \in committed})
    IN  committed \cup
        {[id |-> base + i, user_id |-> pending[i].user_id,
          email_id |-> pending[i].email_id, description |-> pending[i].description,
          priority |-> pending[i].priority, category |-> pending[i].category,
          completed |-> pending[i].completed,
          completed_at |-> pending[i].completed_at] : i \in 1..(IF pending = <<>> THEN 0 ELSE 1)}

\* mutant: the commit writes every tasks row anew, as a row that is open
CommitTasks_reset(committed, pending) ==
    LET base == Max({t.id : t \in committed})
    IN  {[t EXCEPT !.completed = FALSE, !.completed_at = NoTime] : t \in committed} \cup
        {[id |-> base + i, user_id |-> pending[i].user_id,
          email_id |-> pending[i].email_id, description |-> pending[i].description,
          priority |-> pending[i].priority, category |-> pending[i].category,
          completed |-> pending[i].completed,
          completed_at |-> pending[i].completed_at] : i \in 1..Len(pending)}

\* COMMIT of the pending tasks: the rows get their primary keys in order
CommitTasks(committed, pending) ==
    LET base == Max({t.id : t \in committed})
    IN  committed \cup
        {[id |-> base + i, user_id |-> pending[i].user_id,
          email_id |-> pending[i].email_id, description |-> pending[i].description,
          priority |-> pending[i].priority, category |-> pending[i].category,
          completed |-> pending[i].completed,
          completed_at |-> pending[i].completed_at] : i \in 1..Len(pending)}

TasksOf(rows, email_id) == {t \in rows : t.email_id = email_id}

(***************************************************************************)
(* Inputs: what the mail provider and the AI provider may return.          *)
(***************************************************************************)
GoodSubject == Str(0, 20, 0, 0)
BlankSubject == Str(3, 0, 0, 0)
GoodBody == Str(0, 100, 0, 0)

Envelope(g, subject) == [gmail_id |-> g, subject |-> subject, body |-> GoodBody]

Envelopes == {Envelope(g, s) : g \in GmailIds, s \in {GoodSubject, BlankSubject}}

\* message lists in the provider's order, without repeated ids
RECURSIVE ListsFrom(_)
ListsFrom(g) ==
    IF g > MaxFetch THEN {<<>>}
    ELSE LET rest == ListsFrom(g + 1)
         IN  rest \cup {<<e>> \o l : e \in {x \in Envelopes : x.gmail_id = g}, l \in rest}

FetchedLists == ListsFrom(1)

GoodTask == Candidate(Str(0, 30, 0, 0), "High", "Review")

AIResponses ==
    {[kind |-> "raise", items |-> <<>>],
     [kind |-> "array", items |-> <<>>],
     [kind |-> "array", items |-> <<GoodTask>>]}

(***************************************************************************)
(* POST /api/emails/process: ratelimit(limit=5, window=300, per='user')    *)
(* around process_emails.                                                  *)
(***************************************************************************)
IdleReq ==
    [pc |-> "idle", user |-> 0, fetched |-> <<>>, idx |-> 0, eid |-> 0,
     processed_count |-> 0, tasks_created |-> 0, status |-> 0, error |-> None,
     ext |-> {}, units |-> <<>>, prior |-> FALSE, credentials |-> NoCredentials,
     get_errors |-> {}]

\* no run of the user has returned yet
NoRun == [ok |-> FALSE, aborted |-> FALSE, fetched |-> <<>>]

Respond(r, status, error) ==
    [r EXCEPT !.pc = "done", !.status = status, !.error = error]

\* mutant: the exception handler without its rollback
Abort_keeps(p, error) ==
    /\ session' = session
    /\ req' = [req EXCEPT ![p] = Respond(@, 500, error)]

\* emails.py lines 106-108: except Exception: db.session.rollback(); 500
Abort(p, error) ==
    /\ session' = [session EXCEPT ![p] = EmptySession]
    /\ req' = [req EXCEPT ![p] = Respond(@, 500, error)]

\* rate_limiter.py decorated_function: the gate, then 429 or the view
decorated_function(p, u) ==
    /\ req[p].pc = "idle"
    /\ LET r == is_allowed(clients[u], now, LIMIT, WINDOW)
       IN  /\ clients' = [clients EXCEPT ![u] = r.q]
           /\ req' = [req EXCEPT ![p] =
                         IF r.ok THEN [@ EXCEPT !.pc = "entered", !.user = u]
                         ELSE Respond([@ EXCEPT !.user = u], 429, "Rate limit exceeded")]
    /\ UNCHANGED <<now, ticks, users, emails, tasks, session, lastOK, limiter, env>>

\* the number of timestamps the limiter holds
Admitted == LET Sum[i \in 0..NumUsers] ==
                    IF i = 0 THEN 0 ELSE Sum[i - 1] + Len(clients[i])
            IN  Sum[NumUsers]

\* a request of user u arrives at worker p while the limiter holds fewer
\* than n timestamps
RequestUpTo(p, u, n) ==
    /\ Admitted < n
    /\ decorated_function(p, u)

\* a request of user u arrives at worker p
Request(p, u) == RequestUpTo(p, u, MaxAdmit)

\* mutant: a request that is answered 400 gives its admission back
Enter_refunds(p) ==
    /\ req[p].pc = "entered"
    /\ req' = [req EXCEPT ![p] =
                  IF ~users[@.user].gmail_connected
                  THEN Respond(@, 400, "Gmail not connected")
                  ELSE [@ EXCEPT !.pc = "build"]]
    /\ clients' = IF users[req[p].user].gmail_connected THEN clients
                  ELSE [clients EXCEPT ![req[p].user] = SubSeq(@, 1, Len(@) - 1)]
    /\ UNCHANGED <<now, ticks, users, emails, tasks, session, lastOK, limiter, env>>

\* emails.py lines 22-26
Enter(p) ==
    /\ req[p].pc = "entered"
    /\ req' = [req EXCEPT ![p] =
                  IF ~users[@.user].gmail_connected
                  THEN Respond(@, 400, "Gmail not connected")
                  ELSE [@ EXCEPT !.pc = "build"]]
    /\ UNCHANGED <<now, ticks, clients, users, emails, tasks, session, lastOK, limiter, env>>

\* gmail_service.py _build_service, lines 18-44.  The refresh of lines 31-38
\* commits the session, which holds no row yet.
BuildService(p) ==
    /\ req[p].pc = "build"
    /\ LET u == req[p].user
           credentials == Credentials(gmail_access_token(users[u]),
                                      gmail_refresh_token(users[u]))
       IN  IF expired(credentials, now) /\ ~NoToken(credentials.refresh_token)
           THEN \/ \E token \in Tokens, iv \in IVs :
                      /\ users' = [users EXCEPT ![u] =
                                      [@ EXCEPT !.gmail_access_token = StoreToken(token, iv),
                                                !.gmail_token_expiry = now + TokenLife]]
                      /\ req' = [req EXCEPT ![p] =
                                    [@ EXCEPT !.pc = "fetch",
                                              !.ext = @ \cup {"token_endpoint"},
                                              !.credentials =
                                                  [credentials EXCEPT !.token = token,
                                                                      !.expiry = now + TokenLife]]]
                      /\ UNCHANGED session
                \/ /\ Abort(p, "RefreshError")
                   /\ UNCHANGED users
           ELSE /\ UNCHANGED users
                /\ \/ /\ req' = [req EXCEPT ![p] =
                                    [@ EXCEPT !.pc = "fetch", !.credentials = credentials]]
                      /\ UNCHANGED session
                   \/ Abort(p, "BuildError")
    /\ UNCHANGED <<now, ticks, clients, emails, tasks, lastOK, limiter, env>>

\* what the provider gives for the ids it lists: the messages, in its order,
\* and the ids for which messages().get raises
Delivered(Lists) == {[messages |-> l, raised |-> {}] : l \in Lists}

\* gmail_service.py lines 65-72: a message whose _get_email_details returns
\* None (lines 119-121, any exception of the get) is left out
RECURSIVE Collected(_, _)
Collected(messages, raised) ==
    IF messages = <<>> THEN <<>>
    ELSE IF Head(messages).gmail_id \in raised
    THEN Collected(Tail(messages), raised)
    ELSE <<Head(messages)>> \o Collected(Tail(messages), raised)

\* gmail_service.py get_unprocessed_emails: the list call, then one get per
\* id; Results are what the provider may give.  The authorized http object
\* asks for a new access token when it has none or the provider rejects it,
\* and raises RefreshError when it gets none.
get_unprocessed_emails(p, Results) ==
    /\ req[p].pc = "fetch"
    /\ \/ /\ Usable(req[p].credentials)
          /\ \E result \in Results :
                LET new_emails == Collected(result.messages, result.raised)
                IN  req' = [req EXCEPT ![p] =
                               [@ EXCEPT !.pc = "check", !.fetched = new_emails, !.idx = 1,
                                         !.get_errors = result.raised,
                                         !.ext = @ \cup {"gmail_list"} \cup
                                                 (IF result.messages = <<>> THEN {}
                                                  ELSE {"gmail_get"}),
                                         !.prior = (lastOK[req[p].user].ok
                                                    /\ lastOK[req[p].user].fetched = new_emails)]]
          /\ UNCHANGED session
       \/ /\ Usable(req[p].credentials)
          /\ session' = [session EXCEPT ![p] = EmptySession]
          /\ req' = [req EXCEPT ![p] =
                        Respond([@ EXCEPT !.ext = @ \cup {"gmail_list"}], 500, "ProviderError")]
       \/ Abort(p, "RefreshError")
    /\ UNCHANGED <<now, ticks, clients, users, emails, tasks, lastOK, limiter, env>>

Fetch(p) == get_unprocessed_emails(p, Delivered(FetchedLists))

\* emails.py lines 40-53: loop head, the duplicate check and the validation
Check(p) ==
    /\ req[p].pc = "check"
    /\ LET r == req[p]
       IN  IF r.idx > Len(r.fetched)
           THEN req' = [req EXCEPT ![p].pc = "commit"]
           ELSE LET email_data == r.fetched[r.idx]
                IN  IF existing_email(emails \cup session[p].emails,
                                      email_data.gmail_id, r.user)
                       \/ ~validate_email_content(email_data.subject, email_data.body).ok
                    THEN req' = [req EXCEPT ![p].idx = @ + 1]
                    ELSE req' = [req EXCEPT ![p].pc = "insert"]
    /\ UNCHANGED <<now, ticks, clients, users, emails, tasks, session, lastOK, limiter, env>>

\* mutant: the flush of the emails row is a commit
InsertEmail_autocommit(p) ==
    /\ req[p].pc = "insert"
    /\ ~GmailIdTaken(emails, req[p].fetched[req[p].idx].gmail_id)
    /\ emails' = emails \cup {EmailRow(NextEmailId, req[p].user,
                                        req[p].fetched[req[p].idx].gmail_id)}
    /\ req' = [req EXCEPT ![p] = [@ EXCEPT !.pc = "extract", !.eid = NextEmailId]]
    /\ UNCHANGED <<now, ticks, clients, users, tasks, session, lastOK, limiter, env>>

\* emails.py lines 56-68: db.session.add(email_record); db.session.flush().
\* The INSERT waits while another open transaction holds the same gmail_id.
InsertEmail(p) ==
    /\ req[p].pc = "insert"
    /\ LET r == req[p]
           gmail_id == r.fetched[r.idx].gmail_id
       IN  \/ Abort(p, "OperationalError")
           \/ /\ GmailIdTaken(emails, gmail_id)
              /\ Abort(p, "IntegrityError")
           \/ /\ ~GmailIdTaken(emails, gmail_id)
              /\ ~GmailIdTaken(PendingEmails(Procs \ {p}), gmail_id)
              /\ session' = [session EXCEPT ![p].emails =
                                @ \cup {EmailRow(NextEmailId, r.user, gmail_id)}]
              /\ req' = [req EXCEPT ![p] = [@ EXCEPT !.pc = "extract", !.eid = NextEmailId]]
    /\ UNCHANGED <<now, ticks, clients, users, emails, tasks, lastOK, limiter, env>>

\* emails.py lines 74-93: the valid candidates, as pending Task rows
RECURSIVE NewTasks(_, _, _)
NewTasks(candidates, user_id, email_id) ==
    IF candidates = <<>> THEN <<>>
    ELSE LET task_data == Head(candidates)
             v == validate_task_data(task_data.description, task_data.priority,
                                     task_data.category)
             rest == NewTasks(Tail(candidates), user_id, email_id)
         IN  IF v.ok THEN <<TaskRow(user_id, email_id, v)>> \o rest ELSE rest

\* the external calls of one extract_tasks, as the run's record keeps them:
\* the completion call, and whether the client gave up waiting for it
AICall(response) ==
    IF response.kind = "timeout" THEN {"ai", "ai_timeout"} ELSE {"ai"}

\* emails.py lines 70-96: extract_tasks, the Task rows, mark_processed;
\* Responses are the completions the AI provider may give
ExtractFrom(p, Responses) ==
    /\ req[p].pc = "extract"
    /\ \E response \in Responses :
          LET r == req[p]
              result == extract_tasks(response)
              new == NewTasks(result.tasks, r.user, r.eid)
          IN  IF result.raised
              THEN /\ session' = [session EXCEPT ![p] = EmptySession]
                   /\ req' = [req EXCEPT ![p] =
                                 Respond([@ EXCEPT !.ext = @ \cup AICall(response)], 500, "AIError")]
              ELSE /\ session' = [session EXCEPT ![p] =
                                     [emails |-> {IF e.id = r.eid
                                                  THEN mark_processed(e, now) ELSE e
                                                  : e \in @.emails},
                                      tasks |-> @.tasks \o new]]
                   /\ req' = [req EXCEPT ![p] =
                                 [@ EXCEPT !.pc = "check", !.idx = @ + 1,
                                           !.processed_count = @ + 1,
                                           !.tasks_created = @ + Len(new),
                                           !.ext = @ \cup AICall(response),
                                           !.units = Append(@, [eid |-> r.eid,
                                                                gmail_id |-> r.fetched[r.idx].gmail_id,
                                                                failed |-> response.kind # "array",
                                                                n |-> Len(new),
                                                                items |-> response.items])]]
    /\ UNCHANGED <<now, ticks, clients, users, emails, tasks, lastOK, limiter, env>>

Extract(p) == ExtractFrom(p, AIResponses)

\* emails.py lines 98-104: db.session.commit() and the 200 response
CommitRun(p) ==
    /\ req[p].pc = "commit"
    /\ \/ /\ emails' = emails \cup session[p].emails
          /\ tasks' = CommitTasks(tasks, session[p].tasks)
          /\ session' = [session EXCEPT ![p] = EmptySession]
          /\ req' = [req EXCEPT ![p] = Respond(@, 200, None)]
       \/ /\ Abort(p, "OperationalError")
          /\ UNCHANGED <<emails, tasks>>
    /\ UNCHANGED <<now, ticks, clients, users, limiter, env>>

Commit(p) == CommitRun(p) /\ UNCHANGED lastOK

\* the response is sent; the worker takes the next request
Return(p) ==
    /\ req[p].pc = "done"
    /\ req' = [req EXCEPT ![p] = IdleReq]
    /\ UNCHANGED <<now, ticks, clients, users, emails, tasks, session, lastOK, limiter, env>>

\* time passes
Tick(d) ==
    /\ ticks < MaxTicks
    /\ now' = now + d
    /\ ticks' = ticks + 1
    /\ UNCHANGED <<clients, ingest, limiter, env>>

IdleThread == [pc |-> "idle", key |-> 0, t |-> 0, ok |-> FALSE]

\* a users row: connected by an earlier OAuth callback, or logged out
UserRow(connected) ==
    [gmail_connected |-> connected,
     gmail_access_token |-> IF connected THEN Fernet(1, "t1", 1) ELSE NoText,
     gmail_refresh_token |-> IF connected THEN Fernet(1, "t2", 1) ELSE NoText,
     gmail_token_expiry |-> IF connected THEN TokenLife ELSE NoExpiry]

Init ==
    /\ now = 0
    /\ ticks = 0
    /\ clients = [u \in Users |-> <<>>]
    /\ users \in {[u \in Users |-> UserRow(u \in C)] : C \in {Users, {1}}}
    /\ emails = {}
    /\ tasks = {}
    /\ session = [p \in Procs |-> EmptySession]
    /\ req = [p \in Procs |-> IdleReq]
    /\ lastOK = [u \in Users |-> NoRun]
    /\ gate = [limit |-> LIMIT, window |-> WINDOW]
    /\ lock = 0
    /\ thr = [t \in Threads |-> IdleThread]
    /\ hist = [k \in Users |-> <<>>]
    /\ calls = [k \in Users |-> <<>>]
    /\ key = 1
    /\ last = NoCall

Next ==
    \/ \E p \in Procs, u \in Users : Request(p, u)
    \/ \E p \in Procs : Enter(p)
    \/ \E p \in Procs : BuildService(p)
    \/ \E p \in Procs : Fetch(p)
    \/ \E p \in Procs : Check(p)
    \/ \E p \in Procs : InsertEmail(p)
    \/ \E p \in Procs : Extract(p)
    \/ \E p \in Procs : Commit(p)
    \/ \E p \in Procs : Return(p)

Spec == Init /\ [][Next]_vars

(***************************************************************************)
(* SpecSeq: one worker serves the requests one after the other, without a  *)
(* bound on their number, and time passes.                                 *)
(***************************************************************************)
SeqProcs == {1}

NextSeq ==
    \/ \E p \in SeqProcs, u \in Users : decorated_function(p, u)
    \/ \E p \in SeqProcs : Enter(p)
    \/ \E p \in SeqProcs : BuildService(p)
    \/ \E p \in SeqProcs : Fetch(p)
    \/ \E p \in SeqProcs : Check(p)
    \/ \E p \in SeqProcs : InsertEmail(p)
    \/ \E p \in SeqProcs : Extract(p)
    \/ \E p \in SeqProcs : Commit(p)
    \/ \E p \in SeqProcs : Return(p)
    \/ \E d \in {1, WINDOW + 1} : Tick(d)

SpecSeq == Init /\ [][NextSeq]_vars

(***************************************************************************)
(* SpecTwice: one worker serves a few requests one after the other, and    *)
(* lastOK remembers what the last successful run of each user fetched.     *)
(***************************************************************************)
CommitLogged(p) ==
    /\ CommitRun(p)
    /\ lastOK' = IF req'[p].status = 200
                 THEN [lastOK EXCEPT ![req[p].user] =
                          [ok |-> TRUE, aborted |-> FALSE, fetched |-> req[p].fetched]]
                 ELSE lastOK

NextTwice ==
    \/ \E p \in SeqProcs, u \in Users : Request(p, u)
    \/ \E p \in SeqProcs : Enter(p)
    \/ \E p \in SeqProcs : BuildService(p)
    \/ \E p \in SeqProcs : Fetch(p)
    \/ \E p \in SeqProcs : Check(p)
    \/ \E p \in SeqProcs : InsertEmail(p)
    \/ \E p \in SeqProcs : Extract(p)
    \/ \E p \in SeqProcs : CommitLogged(p)
    \/ \E p \in SeqProcs : Return(p)

SpecTwice == Init /\ [][NextTwice]_vars

(***************************************************************************)
(* SpecRetry: one worker serves a few requests one after the other, and    *)
(* lastOK remembers how the last run of each user ended and what it had    *)
(* fetched: an aborted run is followed by its retries.                     *)
(***************************************************************************)
ReturnLogged(p) ==
    /\ req[p].pc = "done"
    /\ req' = [req EXCEPT ![p] = IdleReq]
    /\ lastOK' = IF req[p].status \in {200, 500}
                 THEN [lastOK EXCEPT ![req[p].user] =
                          [ok |-> req[p].status = 200, aborted |-> req[p].status = 500,
                           fetched |-> req[p].fetched]]
                 ELSE lastOK
    /\ UNCHANGED <<now, ticks, clients, users, emails, tasks, session, limiter, env>>

NextRetry ==
    \/ \E p \in SeqProcs, u \in Users : Request(p, u)
    \/ \E p \in SeqProcs : Enter(p)
    \/ \E p \in SeqProcs : BuildService(p)
    \/ \E p \in SeqProcs : Fetch(p)
    \/ \E p \in SeqProcs : Check(p)
    \/ \E p \in SeqProcs : InsertEmail(p)
    \/ \E p \in SeqProcs : Extract(p)
    \/ \E p \in SeqProcs : Commit(p)
    \/ \E p \in SeqProcs : ReturnLogged(p)

SpecRetry == Init /\ [][NextRetry]_vars

(***************************************************************************)
(* SpecGate: threads go through decorated_function and is_allowed line by  *)
(* line.  The limiter is called with one small (limit, window)            *)
(* throughout; the keys are the users' keys.                               *)
(***************************************************************************)
GateArgs ==
    {[limit |-> l, window |-> w] : l \in 1..MaxLimit, w \in 1..MaxWindow}

\* mutant: is_allowed without its lock
LockIgnored(holder) == TRUE

\* rate_limiter.py line 24: `with self.lock` can be entered
LockFree(holder) == holder = 0

\* rate_limiter.py lines 56-65: the key, and the call of is_allowed
Call(t, k) ==
    /\ thr[t].pc = "idle"
    /\ thr' = [thr EXCEPT ![t] = [IdleThread EXCEPT !.pc = "acquire", !.key = k]]
    /\ UNCHANGED <<now, ticks, clients, ingest, gate, lock, hist, calls, env>>

\* rate_limiter.py line 24
Acquire(t) ==
    /\ thr[t].pc = "acquire"
    /\ LockFree(lock)
    /\ lock' = t
    /\ thr' = [thr EXCEPT ![t].pc = "locked"]
    /\ UNCHANGED <<now, ticks, clients, ingest, gate, hist, calls, env>>

\* rate_limiter.py lines 25-34: read the clock, evict, compare with the limit
Decide(t) ==
    /\ thr[t].pc = "locked"
    /\ LET k == thr[t].key
           kept == Evict(clients[k], now, gate.window)
       IN  /\ clients' = [clients EXCEPT ![k] = kept]
           /\ thr' = [thr EXCEPT ![t] =
                         [@ EXCEPT !.pc = "decided", !.t = now,
                                   !.ok = ~LimitExceeded(kept, gate.limit)]]
    /\ UNCHANGED <<now, ticks, ingest, gate, lock, hist, calls, env>>

\* rate_limiter.py lines 34-38: return False, or append and return True;
\* the lock is released on the way out
Leave(t) ==
    /\ thr[t].pc = "decided"
    /\ LET k == thr[t].key
       IN  IF thr[t].ok
           THEN /\ clients' = [clients EXCEPT ![k] = Append(@, thr[t].t)]
                /\ hist' = [hist EXCEPT ![k] = Append(@, thr[t].t)]
                /\ thr' = [thr EXCEPT ![t].pc = "in_f"]
           ELSE /\ thr' = [thr EXCEPT ![t].pc = "rejected"]
                /\ UNCHANGED <<clients, hist>>
    /\ lock' = IF lock = t THEN 0 ELSE lock
    /\ UNCHANGED <<now, ticks, ingest, gate, calls, env>>

\* rate_limiter.py lines 66-71: the 429 response, or the return of f
Finish(t) ==
    /\ thr[t].pc \in {"in_f", "rejected"}
    /\ thr' = [thr EXCEPT ![t] = IdleThread]
    /\ UNCHANGED <<now, ticks, clients, ingest, gate, lock, hist, calls, env>>

GateTick(d) ==
    /\ ticks < GateTicks
    /\ now' = now + d
    /\ ticks' = ticks + 1
    /\ UNCHANGED <<clients, ingest, limiter, env>>

InitLimiter ==
    /\ now = 0
    /\ ticks = 0
    /\ clients = [u \in Users |-> <<>>]
    /\ users = [u \in Users |-> UserRow(TRUE)]
    /\ emails = {}
    /\ tasks = {}
    /\ session = [p \in Procs |-> EmptySession]
    /\ req = [p \in Procs |-> IdleReq]
    /\ lastOK = [u \in Users |-> NoRun]
    /\ lock = 0
    /\ thr = [t \in Threads |-> IdleThread]
    /\ hist = [k \in Users |-> <<>>]
    /\ calls = [k \in Users |-> <<>>]
    /\ key = 1
    /\ last = NoCall

InitGate == InitLimiter /\ gate \in GateArgs

NextGate ==
    \/ \E t \in Threads, k \in Users : Call(t, k)
    \/ \E t \in Threads : Acquire(t)
    \/ \E t \in Threads : Decide(t)
    \/ \E t \in Threads : Leave(t)
    \/ \E t \in Threads : Finish(t)
    \/ \E d \in {1, gate.window} : GateTick(d)

SpecGate == InitGate /\ [][NextGate]_vars

(***************************************************************************)
(* SpecRate: is_allowed as process_emails is decorated (limit 5, window    *)
(* 300 s), one call at a time, with a log of every call.                   *)
(***************************************************************************)
RateCall(k) ==
    /\ Len(calls[k]) < MaxCalls
    /\ LET r == is_allowed(clients[k], now, gate.limit, gate.window)
       IN  /\ clients' = [clients EXCEPT ![k] = r.q]
           /\ calls' = [calls EXCEPT ![k] = Append(@, [t |-> now, ok |-> r.ok])]
    /\ UNCHANGED <<now, ticks, ingest, gate, lock, thr, hist, env>>

RateTick(d) ==
    /\ ticks < RateTicks
    /\ now' = now + d
    /\ ticks' = ticks + 1
    /\ UNCHANGED <<clients, ingest, limiter, env>>

InitRate == InitLimiter /\ gate = [limit |-> LIMIT, window |-> WINDOW]

NextRate ==
    \/ \E k \in Users : RateCall(k)
    \/ \E d \in {1, WINDOW} : RateTick(d)

SpecRate == InitRate /\ [][NextRate]_vars

(***************************************************************************)
(* routes/auth.py: the OAuth callback, logout and /auth/refresh, each one  *)
(* step; `last` records the call of /auth/refresh and its response status. *)
(***************************************************************************)
\* what flow.credentials holds after fetch_token: an access token and its
\* expiry, and a refresh token when the provider sent one
CallbackCredentials ==
    {[token |-> "t1", refresh_token |-> r, expiry |-> now + TokenLife] : r \in {None, "t2"}}

\* auth.py lines 48-107, for a user whose row exists (lines 89-97); an
\* exception of the exchange or of the userinfo call answers 500
google_callback(u) ==
    /\ \/ \E credentials \in CallbackCredentials, iv \in IVs :
             /\ users' = [users EXCEPT ![u] =
                             [gmail_connected |-> TRUE,
                              gmail_access_token |-> StoreToken(credentials.token, iv),
                              gmail_refresh_token |-> StoreToken(credentials.refresh_token, iv),
                              gmail_token_expiry |-> credentials.expiry]]
       \/ UNCHANGED users
    /\ UNCHANGED <<now, ticks, clients, emails, tasks, session, req, lastOK, limiter, env>>

\* auth.py lines 109-124
logout(u) ==
    /\ users' = [users EXCEPT ![u] =
                    [gmail_connected |-> FALSE,
                     gmail_access_token |-> StoreToken(None, 1),
                     gmail_refresh_token |-> StoreToken(None, 1),
                     gmail_token_expiry |-> NoExpiry]]
    /\ UNCHANGED <<now, ticks, clients, emails, tasks, session, req, lastOK, limiter, env>>

\* auth.py line 137: the stored expiry is in the past
Stale(user, t) == user.gmail_token_expiry # NoExpiry /\ user.gmail_token_expiry < t

\* auth.py lines 126-159
refresh_token(u) ==
    /\ LET user == users[u]
           credentials == Credentials(gmail_access_token(user), gmail_refresh_token(user))
       IN  IF /\ Stale(user, now)
              /\ expired(credentials, now)
              /\ ~NoToken(credentials.refresh_token)
           THEN \/ \E token \in Tokens, iv \in IVs :
                      /\ users' = [users EXCEPT ![u] =
                                      [@ EXCEPT !.gmail_access_token = StoreToken(token, iv),
                                                !.gmail_token_expiry = now + TokenLife]]
                      /\ last' = [op |-> "refresh_token", user |-> u, status |-> 200]
                \/ /\ UNCHANGED users
                   /\ last' = [op |-> "refresh_token", user |-> u, status |-> 500]
           ELSE /\ UNCHANGED users
                /\ last' = [op |-> "refresh_token", user |-> u, status |-> 200]
    /\ UNCHANGED <<now, ticks, clients, emails, tasks, session, req, lastOK, limiter, key>>

\* encryption.py lines 14-27: the process is restarted with a SECRET_KEY or
\* ENCRYPTION_SALT it never had before; the limiter's memory starts empty
Restart ==
    /\ \A p \in Procs : req[p].pc = "idle"
    /\ key < NumKeys
    /\ key' = key + 1
    /\ clients' = [u \in Users |-> <<>>]
    /\ UNCHANGED <<now, ticks, ingest, limiter, last>>

\* the provider lists no message
FetchNone(p) == get_unprocessed_emails(p, Delivered({<<>>}))

(***************************************************************************)
(* SpecAuth: one worker serves process_emails for inboxes without new      *)
(* mail, while users connect, log out and refresh, the key changes and the *)
(* access tokens expire.                                                   *)
(***************************************************************************)
NextAuth ==
    \/ \E u \in Users : google_callback(u)
    \/ \E u \in Users : logout(u)
    \/ \E u \in Users : refresh_token(u)
    \/ Restart
    \/ Tick(TokenLife + 1)
    \/ \E p \in SeqProcs, u \in Users : RequestUpTo(p, u, 1)
    \/ \E p \in SeqProcs : Enter(p)
    \/ \E p \in SeqProcs : BuildService(p)
    \/ \E p \in SeqProcs : FetchNone(p)
    \/ \E p \in SeqProcs : Check(p)
    \/ \E p \in SeqProcs : Commit(p)
    \/ \E p \in SeqProcs : Return(p)

SpecAuth == Init /\ [][NextAuth]_vars

(***************************************************************************)
(* routes/tasks.py: complete and incomplete, each one step.                *)
(***************************************************************************)
\* tasks.py lines 76-89; a task of another user, or none, answers 404
complete_task(u, task_id) ==
    /\ \E task \in tasks :
          /\ task.id = task_id /\ task.user_id = u
          /\ tasks' = (tasks \ {task}) \cup {[task EXCEPT !.completed = TRUE,
                                                       !.completed_at = now]}
    /\ UNCHANGED <<now, ticks, clients, users, emails, session, req, lastOK, limiter, env>>

\* tasks.py lines 91-106
incomplete_task(u, task_id) ==
    /\ \E task \in tasks :
          /\ task.id = task_id /\ task.user_id = u
          /\ tasks' = (tasks \ {task}) \cup {[task EXCEPT !.completed = FALSE,
                                                       !.completed_at = NoTime]}
    /\ UNCHANGED <<now, ticks, clients, users, emails, session, req, lastOK, limiter, env>>

(***************************************************************************)
(* SpecTasks: one worker serves process_emails; the AI provider answers    *)
(* with candidates of every shape, and the users complete and reopen their *)
(* tasks.                                                                  *)
(***************************************************************************)
\* descriptions: plain ones of different lengths, a padded one that the
\* escaping makes longer than the cap, a blank one, one over the cap
PlainDesc(n) == Str(0, 30 + n, 0, 0)
PaddedDesc == Str(1, DESC_MAX, 1, 5)
BlankDesc == Str(2, 0, 0, 0)
LongDesc == Str(0, 5 * DESC_MAX, 0, 0)

UrgentTask == Candidate(PlainDesc(1), "Urgent", "Other")
BareTask == Candidate(PlainDesc(2), Absent, Absent)
NullsTask == Candidate(PlainDesc(3), None, None)
PaddedTask == Candidate(PaddedDesc, "Low", "Purchase")
BlankTask == Candidate(BlankDesc, "High", "Review")
EmptyTask == Candidate(EmptyStr, "High", "Review")
LongTask == Candidate(LongDesc, "High", "Review")
NoDescTask == Candidate(Missing, "High", "Review")
NullDescTask == Candidate(PyNone, "High", "Review")
\* an element of the array that is not an object
NotAnObject == [type |-> "str", description |-> Missing, priority |-> Absent,
                category |-> Absent]

TaskResponses ==
    {[kind |-> "raise", items |-> <<>>], [kind |-> "notjson", items |-> <<>>]}
    \cup {[kind |-> "array", items |-> l] :
            l \in {<<>>, <<GoodTask>>, <<UrgentTask>>, <<BareTask>>, <<NullsTask>>,
                   <<PaddedTask>>, <<BlankTask>>, <<EmptyTask>>, <<LongTask>>,
                   <<UrgentTask, LongTask>>, <<BlankTask, BareTask>>,
                   <<NotAnObject, NullsTask>>, <<NoDescTask, UrgentTask>>,
                   <<NullDescTask, GoodTask>>}}

ExtractAny(p) == ExtractFrom(p, TaskResponses)

\* the primary keys of the tasks of MaxFetch messages with two tasks each
TaskIds == 1..(2 * MaxFetch)

\* lists of messages with valid subjects
GoodLists == {l \in FetchedLists : \A i \in 1..Len(l) : l[i].subject = GoodSubject}

FetchGood(p) == get_unprocessed_emails(p, Delivered(GoodLists))

NextTasks ==
    \/ \E p \in SeqProcs, u \in Users : RequestUpTo(p, u, 2)
    \/ \E p \in SeqProcs : Enter(p)
    \/ \E p \in SeqProcs : BuildService(p)
    \/ \E p \in SeqProcs : FetchGood(p)
    \/ \E p \in SeqProcs : Check(p)
    \/ \E p \in SeqProcs : InsertEmail(p)
    \/ \E p \in SeqProcs : ExtractAny(p)
    \/ \E p \in SeqProcs : Commit(p)
    \/ \E p \in SeqProcs : Return(p)
    \/ \E u \in Users, task_id \in TaskIds : complete_task(u, task_id)
    \/ \E u \in Users, task_id \in TaskIds : incomplete_task(u, task_id)

SpecTasks == Init /\ [][NextTasks]_vars

(***************************************************************************)
(* SpecFetch: one worker serves process_emails; the provider lists         *)
(* messages of every shape and a get by id may raise.                      *)
(***************************************************************************)
LongSubject == Str(0, SUBJECT_MAX + 1, 0, 0)
LongBody == Str(0, BODY_MAX + 1, 0, 0)

\* the messages the provider may hold under id g
Shapes(g) ==
    {[gmail_id |-> g, subject |-> GoodSubject, body |-> GoodBody],
     [gmail_id |-> g, subject |-> GoodSubject, body |-> EmptyStr],
     [gmail_id |-> g, subject |-> BlankSubject, body |-> GoodBody],
     [gmail_id |-> g, subject |-> LongSubject, body |-> GoodBody],
     [gmail_id |-> g, subject |-> GoodSubject, body |-> LongBody]}

RECURSIVE ShapedFrom(_)
ShapedFrom(g) ==
    IF g > MaxFetch THEN {<<>>}
    ELSE LET rest == ShapedFrom(g + 1)
         IN  rest \cup {<<e>> \o l : e \in Shapes(g), l \in rest}

\* every list, and for the lists of valid messages every set of failing gets
FetchResults ==
    Delivered(ShapedFrom(1)) \cup
    UNION {{[messages |-> l, raised |-> F] :
               F \in SUBSET {l[i].gmail_id : i \in 1..Len(l)}} : l \in GoodLists}

FetchAny(p) == get_unprocessed_emails(p, FetchResults)

NextFetch ==
    \/ \E p \in SeqProcs, u \in Users : RequestUpTo(p, u, 2)
    \/ \E p \in SeqProcs : Enter(p)
    \/ \E p \in SeqProcs : BuildService(p)
    \/ \E p \in SeqProcs : FetchAny(p)
    \/ \E p \in SeqProcs : Check(p)
    \/ \E p \in SeqProcs : InsertEmail(p)
    \/ \E p \in SeqProcs : Extract(p)
    \/ \E p \in SeqProcs : Commit(p)
    \/ \E p \in SeqProcs : Return(p)

SpecFetch == Init /\ [][NextFetch]_vars

(***************************************************************************)
(* SpecCrypt: encrypt_token and decrypt_token called on every input, by a  *)
(* process that runs with any of the keys.                                 *)
(***************************************************************************)
EncryptCall(token, iv) ==
    /\ last' = [op |-> "encrypt_token", arg |-> token, raised |-> FALSE,
                result |-> encrypt_token(token, key, iv)]
    /\ UNCHANGED <<now, ticks, clients, ingest, limiter, key>>

DecryptCall(text) ==
    /\ LET r == decrypt_token(text, key)
       IN  last' = [op |-> "decrypt_token", arg |-> text, raised |-> r.raised,
                    result |-> r.value]
    /\ UNCHANGED <<now, ticks, clients, ingest, limiter, key>>

\* a token is stored and read back: models/user.py lines 26-39
RoundTripCall(token, iv) ==
    /\ LET r == decrypt_token(encrypt_token(token, key, iv), key)
       IN  last' = [op |-> "round_trip", arg |-> token, raised |-> r.raised,
                    result |-> r.value]
    /\ UNCHANGED <<now, ticks, clients, ingest, limiter, key>>

InitCrypt ==
    /\ now = 0
    /\ ticks = 0
    /\ clients = [u \in Users |-> <<>>]
    /\ users = [u \in Users |-> UserRow(TRUE)]
    /\ emails = {}
    /\ tasks = {}
    /\ session = [p \in Procs |-> EmptySession]
    /\ req = [p \in Procs |-> IdleReq]
    /\ lastOK = [u \in Users |-> NoRun]
    /\ gate = [limit |-> LIMIT, window |-> WINDOW]
    /\ lock = 0
    /\ thr = [t \in Threads |-> IdleThread]
    /\ hist = [k \in Users |-> <<>>]
    /\ calls = [k \in Users |-> <<>>]
    /\ key \in Keys
    /\ last = NoCall

NextCrypt ==
    \/ \E token \in Tokens \cup {"", None}, iv \in IVs : EncryptCall(token, iv)
    \/ \E text \in StoredTexts : DecryptCall(text)
    \/ \E token \in Tokens \cup {"", None}, iv \in IVs : RoundTripCall(token, iv)

SpecCrypt == InitCrypt /\ [][NextCrypt]_vars

(***************************************************************************)
(* Properties of the ingestion run.                                        *)
(***************************************************************************)
Done(p) == req[p].pc = "done"

Succeeded(p) == Done(p) /\ req[p].status = 200

\* the run is between the credential step and its response
Active(p) == req[p].pc \in {"build", "fetch", "check", "insert", "extract", "commit"}

Units(p) == {req[p].units[i] : i \in 1..Len(req[p].units)}

PendingTasks(p) == {session[p].tasks[i] : i \in 1..Len(session[p].tasks)}

ValidEnvelope(m) == validate_email_content(m.subject, m.body).ok

\* the committed emails row of a unit of run p, processed, with n tasks
UnitPersisted(p, x) ==
    /\ \E e \in emails : /\ e.id = x.eid
                         /\ e.user_id = req[p].user
                         /\ e.gmail_id = x.gmail_id
                         /\ e.processed
    /\ Cardinality(TasksOf(tasks, x.eid)) = x.n

\* C1: idempotency.  A run of a user over the fetched list that the user's
\* last successful run fetched skips every message: it never reaches the
\* insert or the extraction, adds no row to its session, counts nothing, and
\* no step of it changes the emails or tasks tables.
C1_SecondRunInert ==
    /\ [](\A p \in Procs : req[p].prior =>
            /\ req[p].pc \notin {"insert", "extract"}
            /\ session[p] = EmptySession
            /\ req[p].processed_count = 0
            /\ req[p].tasks_created = 0)
    /\ [][\A p \in Procs : (req[p].prior /\ req'[p].prior) =>
            (emails' = emails /\ tasks' = tasks)]_vars

C1_Witness ==
    \E p \in Procs :
        /\ Succeeded(p)
        /\ req[p].prior
        /\ Len(req[p].fetched) >= 2
        /\ \E i \in 1..Len(req[p].fetched) :
              /\ ValidEnvelope(req[p].fetched[i])
              /\ existing_email(emails, req[p].fetched[i].gmail_id, req[p].user)
              /\ \E t \in tasks : t.user_id = req[p].user

\* C2: at most one emails row per (user_id, gmail_id), also when two runs of
\* one user overlap on the same messages; every tasks row belongs to one
\* emails row of its user, and the tasks of a committed emails row never
\* change afterwards (they are not persisted a second time).
C2_NoDuplicates ==
    /\ [](/\ \A e1, e2 \in emails :
                (e1.user_id = e2.user_id /\ e1.gmail_id = e2.gmail_id) => e1 = e2
          /\ \A t \in tasks :
                Cardinality({e \in emails : e.id = t.email_id /\ e.user_id = t.user_id}) = 1)
    /\ [][\A e \in emails : TasksOf(tasks', e.id) = TasksOf(tasks, e.id)]_vars

\* two runs of one user overlapped on a message: one has committed it and
\* the other, past its duplicate check, is about to insert it
C2_Witness ==
    \E p \in Procs :
        /\ req[p].pc = "insert"
        /\ existing_email(emails, req[p].fetched[req[p].idx].gmail_id, req[p].user)

PersistenceErrors == {"OperationalError", "IntegrityError"}

\* C3: message-level atomicity.  When the INSERT of one message fails, the
\* messages the run had handled before it stay persisted with their tasks.
C3_MessageAtomicity ==
    \A p \in Procs :
        (/\ Done(p)
         /\ req[p].error \in PersistenceErrors
         /\ req[p].idx <= Len(req[p].fetched))
        => \A x \in Units(p) : UnitPersisted(p, x)

\* C4: a committed emails row that is processed has its tasks committed with
\* it: none of its tasks is pending in a session, its extraction is not
\* still running, and the tasks table holds as many tasks for it as its
\* extraction created.
C4_ProcessedWithTasks ==
    /\ \A e \in emails : e.processed =>
          \A p \in Procs :
             /\ \A t \in PendingTasks(p) : t.email_id # e.id
             /\ ~(req[p].pc = "extract" /\ req[p].eid = e.id)
    /\ \A p \in Procs : (~Done(p) \/ Succeeded(p)) =>
          \A x \in Units(p) :
             (\E e \in emails : e.id = x.eid /\ e.processed)
             => Cardinality(TasksOf(tasks, x.eid)) = x.n

C4_Witness ==
    \E p \in Procs :
        /\ Succeeded(p)
        /\ \E x \in Units(p) : x.n > 0 /\ UnitPersisted(p, x)

\* C5: an AI failure for one message never aborts the run, and a run that
\* returns 200 has persisted every valid fetched message for its user: the
\* message whose extraction failed as a processed row without tasks, the
\* others with the tasks created for them.
C5_FailureIsolated ==
    \A p \in Procs :
        /\ req[p].error # "AIError"
        /\ Succeeded(p) =>
              /\ \A i \in 1..Len(req[p].fetched) :
                    ValidEnvelope(req[p].fetched[i]) =>
                       existing_email(emails, req[p].fetched[i].gmail_id, req[p].user)
              /\ \A x \in Units(p) :
                    /\ UnitPersisted(p, x)
                    /\ x.failed => TasksOf(tasks, x.eid) = {}

C5_Witness ==
    \E p \in Procs :
        /\ Succeeded(p)
        /\ \E x, y \in Units(p) : x.failed /\ ~y.failed /\ y.n > 0

\* C10: runs of different users do not interfere.  A run is never aborted
\* by the uniqueness of a message id unless its own user already holds a
\* row with that id.
C10_NoInterference ==
    \A p \in Procs :
        (Done(p) /\ req[p].error = "IntegrityError")
        => existing_email(emails, req[p].fetched[req[p].idx].gmail_id, req[p].user)

(***************************************************************************)
(* Properties of the rate gate.                                            *)
(***************************************************************************)
Min(a, b) == IF a <= b THEN a ELSE b

\* the scenario's calls for key k: the first ten at t = 0, an 11th at t = 301
Scenario(k, n) ==
    /\ Len(calls[k]) >= n
    /\ \A i \in 1..Min(n, 10) : calls[k][i].t = 0
    /\ n >= 11 => calls[k][11].t = WINDOW + 1

\* C6: with limit 5 and window 300 s, of the calls of one key issued at t = 0
\* the first 5 are admitted and the 6th to 10th rejected, and an 11th call
\* at t = 301 s is admitted.
C6_Scenario ==
    \A k \in Users : \A n \in 1..11 :
        Scenario(k, n) =>
            calls[k][n].ok = (n <= LIMIT \/ n = 11)

C6_Witness ==
    \E k \in Users : Scenario(k, 11) /\ calls[k][11].ok /\ ~calls[k][10].ok

\* the admitted timestamps of key k that lie in [from, to]
AdmittedIn(k, from, to) ==
    {i \in 1..Len(hist[k]) : from <= hist[k][i] /\ hist[k][i] <= to}

\* C7: for every key, the admitted calls whose timestamps lie within an
\* interval of length window never exceed limit, and a call is admitted
\* exactly when fewer than limit admitted timestamps of its key are not older
\* than now - window.
C7_SlidingWindow ==
    /\ \A k \in Users : \A i \in 1..Len(hist[k]) :
          Cardinality(AdmittedIn(k, hist[k][i], hist[k][i] + gate.window)) <= gate.limit
    /\ \A t \in Threads : thr[t].pc = "decided" =>
          (thr[t].ok <=>
             Cardinality(AdmittedIn(thr[t].key, thr[t].t - gate.window, thr[t].t))
                < gate.limit)

\* two threads were in is_allowed for one key at the same time, one was
\* rejected, and an earlier admission of the key has left the window
C7_Witness ==
    \E t1, t2 \in Threads :
        /\ t1 # t2
        /\ thr[t1].key = thr[t2].key
        /\ thr[t1].pc = "decided" /\ ~thr[t1].ok
        /\ thr[t2].pc = "acquire"
        /\ \E k \in Users : k # thr[t1].key /\ Len(hist[k]) > gate.limit

\* C8: a request the gate rejects answers 429 at once and changes nothing:
\* no timestamp is added for its key (or any other), no row of users, emails
\* or tasks changes, no session holds anything, and no external call is made.
C8_RejectedNoEffect ==
    /\ [][\A p \in Procs : (req[p].pc = "idle" /\ req'[p].pc = "done") =>
            /\ req'[p].status = 429
            /\ req'[p].ext = {}
            /\ \A u \in Users :
                  \E n \in 0..Len(clients[u]) :
                     clients'[u] = SubSeq(clients[u], n + 1, Len(clients[u]))
            /\ users' = users /\ emails' = emails /\ tasks' = tasks
            /\ session' = session]_vars
    /\ [](\A p \in Procs : req[p].status = 429 =>
            (Done(p) /\ req[p].ext = {} /\ session[p] = EmptySession))

C8_Witness ==
    \E p \in Procs :
        /\ Done(p) /\ req[p].status = 429
        /\ Len(clients[req[p].user]) = LIMIT
        /\ emails # {}

RunsOf(u) == {p \in Procs : Active(p) /\ req[p].user = u}

\* C9 as stated: no two admitted runs of one user are in their
\* fetch/extract/persist steps at the same time.
C9_Serialized ==
    \A u \in Users : Cardinality(RunsOf(u)) <= 1

\* C9 as amended: the gate counts the runs, it does not serialize them.
\* Every run in its fetch/extract/persist steps has consumed one admission
\* of its user.
C9_AdmissionHeld ==
    \A u \in Users : Cardinality(RunsOf(u)) <= Len(clients[u])

C9_Witness ==
    \E u \in Users : Cardinality(RunsOf(u)) = 2 /\ Len(clients[u]) = 2

(***************************************************************************)
(* Properties of the token encryption.                                     *)
(***************************************************************************)
\* C15: encryption round trip.  A non-empty token that is encrypted and then
\* decrypted under the same key comes back unchanged; decrypt_token never
\* raises, and for every text that is not a ciphertext produced under the
\* current key (garbled, or produced under another key) it returns None.
C15_RoundTrip ==
    /\ last.op = "round_trip" /\ ~NoToken(last.arg) =>
          ~last.raised /\ last.result = last.arg
    /\ last.op = "decrypt_token" =>
          /\ ~last.raised
          /\ ~(last.arg.type = "fernet" /\ last.arg.key = key) => last.result = None

\* a token was encrypted and decrypted by a process that runs with the
\* second key
C15_Witness ==
    /\ last.op = "round_trip"
    /\ last.arg \in Tokens
    /\ last.result = last.arg
    /\ key = 2

(***************************************************************************)
(* Properties of the credentials and of the run-level errors.              *)
(***************************************************************************)
\* the failures that end a run before any message is handled, by the error
\* text of the response
RunLevelErrors == {"Rate limit exceeded", "RefreshError", "ProviderError"}

\* C11: a rate-limit rejection, an auth failure (the credential cannot be
\* refreshed) and a provider error during the fetch are told apart by the
\* caller: two responses for two different kinds of these failures have
\* different statuses.
C11_DistinctKinds ==
    \A p, q \in Procs :
        (/\ Done(p) /\ Done(q)
         /\ req[p].error \in RunLevelErrors
         /\ req[q].error \in RunLevelErrors
         /\ req[p].error # req[q].error)
        => req[p].status # req[q].status

\* the user's refresh token can be read
Refreshable(user) == ~NoToken(gmail_refresh_token(user))

\* C12: when the stored expiry of a user with a refresh token is in the past,
\* the credential step of an ingestion run that goes on to the fetch, and a
\* call of /auth/refresh that answers 200, leave a new access token and an
\* expiry in the future on the user.
C12_RefreshedWhenStale ==
    /\ [][\A p \in Procs :
            (/\ req[p].pc = "build" /\ req'[p].pc = "fetch"
             /\ Stale(users[req[p].user], now)
             /\ Refreshable(users[req[p].user]))
            => /\ ~Stale(users'[req[p].user], now)
               /\ "token_endpoint" \in req'[p].ext]_vars
    /\ [][(/\ last' # last
           /\ last'.op = "refresh_token"
           /\ last'.status = 200
           /\ Stale(users[last'.user], now)
           /\ Refreshable(users[last'.user]))
          => ~Stale(users'[last'.user], now)]_vars

\* a token column holds a text that decrypt_token cannot read
Undecryptable(user) ==
    \/ user.gmail_access_token # NoText /\ NoToken(gmail_access_token(user))
    \/ user.gmail_refresh_token # NoText /\ NoToken(gmail_refresh_token(user))

\* C13: an ingestion run of a user with an undecryptable token ends at the
\* connection check with 400 'Gmail not connected', as for a user that is not
\* connected: it builds no service and calls no provider.
C13_UndecryptableNotConnected ==
    [][\A p \in Procs :
          (/\ req[p].pc = "entered" /\ req'[p].pc # "entered"
           /\ Undecryptable(users[req[p].user]))
          => /\ req'[p].pc = "done"
             /\ req'[p].status = 400
             /\ req'[p].error = "Gmail not connected"]_vars

\* C14: a connected user has both token columns set, and a user with both
\* token columns cleared is not connected.
C14_CredentialInvariant ==
    \A u \in Users :
        /\ users[u].gmail_connected =>
              /\ users[u].gmail_access_token # NoText
              /\ users[u].gmail_refresh_token # NoText
        /\ (users[u].gmail_access_token = NoText /\ users[u].gmail_refresh_token = NoText)
              => ~users[u].gmail_connected

(***************************************************************************)
(* Properties of the task candidates.                                      *)
(***************************************************************************)
Priorities == {"High", "Medium", "Low"}

Categories == {"Follow-up", "Meeting Prep", "Purchase", "General",
               "Review", "Approval", "Schedule", "Research"}

\* the response is an array that _parse_ai_response goes through to its end:
\* the description of every object in it is a string or absent
Parsed(x) ==
    /\ ~x.failed
    /\ \A i \in 1..Len(x.items) :
          x.items[i].type = "dict" => x.items[i].description.type \in {"str", "missing"}

HasText(c) == c.type = "dict" /\ c.description.type = "str"

\* a candidate with a non-empty description within the cap
WithinCap(c) ==
    /\ HasText(c)
    /\ len(strip(c.description)) > 0
    /\ len(strip(c.description)) <= DESC_MAX

\* a candidate with an empty or whitespace-only description
Blank(c) == HasText(c) /\ len(strip(c.description)) = 0

\* the tasks rows of an emails row with the description of candidate c
RowsFor(eid, c) ==
    {t \in TasksOf(tasks, eid) :
        t.description = sanitize_text(strip(c.description), DESC_MAX)}

\* C16: validation clamping through the pipeline.  In a run that returned
\* 200, for every message whose AI response was parsed, every candidate with
\* a non-empty description within the cap has a tasks row, with its priority
\* if that is High, Medium or Low and "Medium" otherwise (absent, null or out
\* of the enum), and its category if that is in the fixed set and "General"
\* otherwise; the message has no more rows than candidates that are not
\* blank, so an empty or whitespace-only description gives no row.
C16_Clamped ==
    \A p \in Procs : Succeeded(p) =>
        \A x \in Units(p) : Parsed(x) =>
            /\ \A i \in 1..Len(x.items) :
                  LET c == x.items[i]
                  IN  WithinCap(c) =>
                         /\ RowsFor(x.eid, c) # {}
                         /\ \A t \in RowsFor(x.eid, c) :
                               /\ t.priority =
                                     (IF c.priority \in Priorities THEN c.priority ELSE "Medium")
                               /\ t.category =
                                     (IF c.category \in Categories THEN c.category ELSE "General")
            /\ Cardinality(TasksOf(tasks, x.eid))
                  <= Cardinality({i \in 1..Len(x.items) :
                                     HasText(x.items[i]) /\ ~Blank(x.items[i])})

\* a run persisted a candidate with priority "Urgent" next to one that was
\* dropped, and another message whose only candidate was blank
C16_Witness ==
    \E p \in Procs :
        /\ Succeeded(p)
        /\ \E x, y \in Units(p) :
              /\ x.items = <<NoDescTask, UrgentTask>>
              /\ \E t \in TasksOf(tasks, x.eid) :
                    t.priority = "Medium" /\ t.category = "General"
              /\ y.items = <<BlankTask>>
              /\ TasksOf(tasks, y.eid) = {}

\* a candidate whose description is longer than the cap
OverCap(c) == HasText(c) /\ len(strip(c.description)) > DESC_MAX

\* C17: in a run that returned 200, a candidate whose description is longer
\* than the cap has a tasks row whose description is cut to the cap.
C17_TruncatedNotDropped ==
    \A p \in Procs : Succeeded(p) =>
        \A x \in Units(p) : Parsed(x) =>
            \A i \in 1..Len(x.items) :
                OverCap(x.items[i]) =>
                    \E t \in TasksOf(tasks, x.eid) : len(t.description) = DESC_MAX

\* C18: every tasks row has a non-empty description of at most 1000
\* characters, a priority and a category of the fixed sets, and the user_id
\* of the emails row it references; the rows a session holds do too.
C18_TaskInvariant ==
    /\ \A t \in tasks :
          /\ len(t.description) > 0
          /\ len(t.description) <= DESC_MAX
          /\ t.priority \in Priorities
          /\ t.category \in Categories
          /\ \E e \in emails : e.id = t.email_id /\ e.user_id = t.user_id
    /\ \A p \in Procs : \A t \in PendingTasks(p) :
          /\ len(t.description) \in 1..DESC_MAX
          /\ t.priority \in Priorities
          /\ t.category \in Categories
          /\ \E e \in session[p].emails : e.id = t.email_id /\ e.user_id = t.user_id

\* a completed task whose description the escaping made longer than the cap,
\* next to a reopened one
C18_Witness ==
    /\ \E t \in tasks : t.completed /\ len(t.description) = DESC_MAX
    /\ \E t \in tasks : ~t.completed /\ t.priority = "Medium"
    /\ \E t1, t2 \in tasks : t1.user_id # t2.user_id

(***************************************************************************)
(* Properties of the fetch.                                                *)
(***************************************************************************)
\* C19: a provider error of the list call or of a get by id aborts the whole
\* run: the run ends with 500 and holds and persists no row.
C19_ProviderErrorAborts ==
    \A p \in Procs :
        (req[p].get_errors # {} \/ req[p].error = "ProviderError")
        => /\ Done(p)
           /\ req[p].status = 500
           /\ session[p] = EmptySession
           /\ Units(p) = {}

\* the message is within the size bounds: a subject that is not blank and
\* has at most 500 characters, a body of at most 50000 characters
WithinBounds(m) ==
    /\ m.subject.lead + m.subject.trail < m.subject.lead + m.subject.core + m.subject.trail
    /\ m.subject.lead + m.subject.core + m.subject.trail <= SUBJECT_MAX
    /\ m.body.lead + m.body.core + m.body.trail <= BODY_MAX

FetchedOf(p) == {req[p].fetched[i] : i \in 1..Len(req[p].fetched)}

\* C20: a fetched message that violates the size bounds is skipped alone.  No
\* run extracts tasks or holds a row for such a message, and a run that
\* returned 200 has persisted every message within the bounds for its user,
\* each one it handled with the tasks created for it.
C20_InvalidSkippedAlone ==
    \A p \in Procs :
        /\ \A m \in FetchedOf(p) : ~WithinBounds(m) =>
              /\ \A x \in Units(p) : x.gmail_id # m.gmail_id
              /\ \A e \in session[p].emails : e.gmail_id # m.gmail_id
              /\ ~(req[p].pc \in {"insert", "extract"} /\ req[p].fetched[req[p].idx] = m)
        /\ Succeeded(p) =>
              /\ \A m \in FetchedOf(p) : WithinBounds(m) =>
                    existing_email(emails, m.gmail_id, req[p].user)
              /\ \A x \in Units(p) : UnitPersisted(p, x)

\* a run skipped a message with a body over the bound and persisted the
\* message after it with a task
C20_Witness ==
    \E p \in Procs :
        /\ Succeeded(p)
        /\ Len(req[p].fetched) = 2
        /\ req[p].fetched[1].body = LongBody
        /\ \E x \in Units(p) :
              /\ x.gmail_id = req[p].fetched[2].gmail_id
              /\ x.n > 0
              /\ UnitPersisted(p, x)

(***************************************************************************)
(* SpecCount: one worker serves two requests; the provider returns         *)
(* messages of every shape and the AI candidates of every shape.           *)
(***************************************************************************)
NextCount ==
    \/ \E p \in SeqProcs, u \in Users : RequestUpTo(p, u, 2)
    \/ \E p \in SeqProcs : Enter(p)
    \/ \E p \in SeqProcs : BuildService(p)
    \/ \E p \in SeqProcs : FetchAny(p)
    \/ \E p \in SeqProcs : Check(p)
    \/ \E p \in SeqProcs : InsertEmail(p)
    \/ \E p \in SeqProcs : ExtractAny(p)
    \/ \E p \in SeqProcs : Commit(p)
    \/ \E p \in SeqProcs : Return(p)

SpecCount == Init /\ [][NextCount]_vars

(***************************************************************************)
(* SpecLive: one worker serves two requests and goes on with a request it  *)
(* has admitted; the AI client may give up waiting for the completion      *)
(* (openai.APITimeoutError).                                               *)
(***************************************************************************)
LiveResponses == AIResponses \cup {[kind |-> "timeout", items |-> <<>>]}

ExtractLive(p) == ExtractFrom(p, LiveResponses)

\* a step of the handler
Step(p) ==
    \/ Enter(p)
    \/ BuildService(p)
    \/ FetchAny(p)
    \/ Check(p)
    \/ InsertEmail(p)
    \/ ExtractLive(p)
    \/ Commit(p)

NextLive ==
    \/ \E p \in SeqProcs, u \in Users : RequestUpTo(p, u, 2)
    \/ \E p \in SeqProcs : Step(p)
    \/ \E p \in SeqProcs : Return(p)

\* the worker thread runs the handler to its return statement
SpecLive == Init /\ [][NextLive]_vars /\ \A p \in SeqProcs : WF_vars(Step(p))

(***************************************************************************)
(* SpecCred: the workers serve the requests that read or write a user's    *)
(* credential side by side: process_emails for inboxes without new mail,   *)
(* /auth/refresh and the OAuth callback, which is taken in its two steps,  *)
(* the exchange of the code and the update of the users row.               *)
(***************************************************************************)
\* auth.py lines 51-63: flow.fetch_token and the userinfo call, which names
\* the user; an exception of either answers 500
fetch_token(p, u) ==
    /\ req[p].pc = "idle"
    /\ \/ \E credentials \in CallbackCredentials :
             req' = [req EXCEPT ![p] =
                        [@ EXCEPT !.pc = "callback", !.user = u,
                                  !.credentials = credentials]]
       \/ req' = [req EXCEPT ![p] = Respond([@ EXCEPT !.user = u], 500, "OAuthError")]
    /\ UNCHANGED <<now, ticks, clients, users, emails, tasks, session, lastOK, limiter, env>>

\* auth.py lines 77-99: the row of the user is updated and committed
update_user(p) ==
    /\ req[p].pc = "callback"
    /\ \E iv \in IVs :
          users' = [users EXCEPT ![req[p].user] =
                       [gmail_connected |-> TRUE,
                        gmail_access_token |-> StoreToken(req[p].credentials.token, iv),
                        gmail_refresh_token |->
                            StoreToken(req[p].credentials.refresh_token, iv),
                        gmail_token_expiry |-> req[p].credentials.expiry]]
    /\ req' = [req EXCEPT ![p] = Respond(@, 302, None)]
    /\ UNCHANGED <<now, ticks, clients, emails, tasks, session, lastOK, limiter, env>>

NextCred ==
    \/ \E p \in Procs, u \in Users : fetch_token(p, u)
    \/ \E p \in Procs : update_user(p)
    \/ \E u \in Users : refresh_token(u)
    \/ Tick(1)
    \/ \E p \in Procs, u \in Users : RequestUpTo(p, u, 1)
    \/ \E p \in Procs : Enter(p)
    \/ \E p \in Procs : BuildService(p)
    \/ \E p \in Procs : FetchNone(p)
    \/ \E p \in Procs : Check(p)
    \/ \E p \in Procs : Commit(p)
    \/ \E p \in Procs : Return(p)

SpecCred == Init /\ [][NextCred]_vars

(***************************************************************************)
(* SpecParse: extract_tasks is called for every outcome of the completion  *)
(* call.                                                                   *)
(***************************************************************************)
MaxItems == 2

Elements ==
    {GoodTask, UrgentTask, BareTask, BlankTask, LongTask, NoDescTask, NullDescTask,
     NotAnObject}

RECURSIVE Arrays(_)
Arrays(n) ==
    IF n = 0 THEN {<<>>}
    ELSE Arrays(n - 1) \cup {Append(l, e) : l \in Arrays(n - 1), e \in Elements}

Fences == {"", "fence json", "fence"}

\* the completion call raises or times out, the message has no content, or
\* it has a text
Completions ==
    {[kind |-> k, items |-> <<>>] : k \in {"raise", "timeout", "nocontent", "notjson"}}
    \cup {[kind |-> "array", items |-> l] : l \in Arrays(MaxItems)}
    \cup {Text(o, "array", l, c) : o \in Fences, l \in Arrays(MaxItems), c \in {"", "fence"}}
    \cup {Text(o, t, <<>>, c) : o \in Fences, c \in {"", "fence"},
                               t \in {"invalid", "object", "string", "number", "null"}}

\* one call of extract_tasks
ExtractCall ==
    /\ last = NoCall
    /\ \E response \in Completions :
          last' = [op |-> "extract_tasks", response |-> response,
                   result |-> extract_tasks(response)]
    /\ UNCHANGED <<now, ticks, clients, ingest, limiter, key>>

NextParse == ExtractCall

SpecParse == Init /\ [][NextParse]_vars

(***************************************************************************)
(* SpecBody: GmailService._extract_body is called for a payload.  A part   *)
(* has a mimeType (Absent when the key is missing) and the data of its     *)
(* body: Absent when the body has no data, "bad" when the data cannot be   *)
(* decoded, else the name of a content.                                    *)
(***************************************************************************)
MaxParts == 3

Part(mimeType, data) == [mimeType |-> mimeType, data |-> data]

PartShapes ==
    {Part("text/plain", "d1"), Part("text/plain", Absent), Part("text/plain", "bad"),
     Part("text/html", "d2"), Part("text/html", Absent),
     Part("application/pdf", "d3"), Part(Absent, "d1")}

RECURSIVE PartLists(_)
PartLists(n) ==
    IF n = 0 THEN {<<>>}
    ELSE PartLists(n - 1) \cup {Append(l, e) : l \in PartLists(n - 1), e \in PartShapes}

\* a multipart payload, or a simple one with the data of its body
Payloads ==
    {[multipart |-> TRUE, parts |-> l, data |-> Absent] : l \in PartLists(MaxParts)}
    \cup {[multipart |-> FALSE, parts |-> <<>>, data |-> d] : d \in {"d1", Absent, "bad"}}

EmptyBody == [text |-> "empty", data |-> Absent]

\* base64.urlsafe_b64decode(data).decode('utf-8'): [raised, body]
Decoded(data) ==
    IF data = "bad" THEN [raised |-> TRUE, body |-> EmptyBody]
    ELSE [raised |-> FALSE, body |-> [text |-> "decoded", data |-> data]]

\* gmail_service.py lines 160-162: the tags are cut out of the decoded text
Stripped(body) == [body EXCEPT !.text = "stripped"]

\* gmail_service.py lines 151-162, the loop over the parts from part i on:
\* [raised, body]; the first text/plain or text/html part with data returns
RECURSIVE FirstText(_, _)
FirstText(parts, i) ==
    IF i > Len(parts) THEN [raised |-> FALSE, body |-> EmptyBody]
    ELSE LET part == parts[i]
         IN  IF part.mimeType = Absent
             THEN [raised |-> TRUE, body |-> EmptyBody]       \* KeyError
             ELSE IF part.mimeType = "text/plain" /\ part.data # Absent
             THEN Decoded(part.data)
             ELSE IF part.mimeType = "text/html" /\ part.data # Absent
             THEN LET html_content == Decoded(part.data)
                  IN  [html_content EXCEPT !.body = IF html_content.raised THEN @
                                                    ELSE Stripped(@)]
             ELSE FirstText(parts, i + 1)

\* gmail_service.py _extract_body, lines 146-171: an exception gives ""
_extract_body(payload) ==
    LET r == IF payload.multipart THEN FirstText(payload.parts, 1)
             ELSE IF payload.data # Absent THEN Decoded(payload.data)
             ELSE [raised |-> FALSE, body |-> EmptyBody]
    IN  IF r.raised THEN EmptyBody ELSE r.body

\* one call of _extract_body
BodyCall ==
    /\ last = NoCall
    /\ \E payload \in Payloads :
          last' = [op |-> "_extract_body", payload |-> payload,
                   result |-> _extract_body(payload)]
    /\ UNCHANGED <<now, ticks, clients, ingest, limiter, key>>

NextBody == BodyCall

SpecBody == Init /\ [][NextBody]_vars

(***************************************************************************)
(* SpecFrame: SpecTasks, and time passes.                                  *)
(***************************************************************************)
NextFrame ==
    \/ NextTasks
    \/ Tick(1)

SpecFrame == Init /\ [][NextFrame]_vars

(***************************************************************************)
(* SpecAdmit: one worker serves the requests for inboxes without new mail  *)
(* one after the other, users log out, the window passes; calls keeps, for *)
(* each user, the requests of the last window that passed the gate: when   *)
(* they were admitted and how they were answered.                          *)
(***************************************************************************)
\* the entries of a log that are no older than the window
Recent(q) == SelectSeq(q, LAMBDA c : c.t >= now - WINDOW)

\* the last time the limiter holds for user u, which is the time of the
\* request the worker is serving if that has passed the gate
Recorded(u) == IF clients[u] = <<>> THEN now ELSE clients[u][Len(clients[u])]

\* the response is sent and, unless it is a 429, logged with the time the
\* gate recorded for the request
ReturnCounted(p) ==
    /\ req[p].pc = "done"
    /\ req' = [req EXCEPT ![p] = IdleReq]
    /\ calls' = IF req[p].status = 429 THEN calls
                ELSE [calls EXCEPT ![req[p].user] =
                         Append(Recent(@),
                                [t |-> Recorded(req[p].user), status |-> req[p].status])]
    /\ UNCHANGED <<now, ticks, clients, users, emails, tasks, session, lastOK,
                   gate, lock, thr, hist, env>>

NextAdmit ==
    \/ \E p \in SeqProcs, u \in Users : decorated_function(p, u)
    \/ \E p \in SeqProcs : Enter(p)
    \/ \E p \in SeqProcs : BuildService(p)
    \/ \E p \in SeqProcs : FetchNone(p)
    \/ \E p \in SeqProcs : Check(p)
    \/ \E p \in SeqProcs : Commit(p)
    \/ \E p \in SeqProcs : ReturnCounted(p)
    \/ \E u \in Users : logout(u)
    \/ Tick(WINDOW + 1)

SpecAdmit == Init /\ [][NextAdmit]_vars

(***************************************************************************)
(* Retries (SpecRetry).                                                    *)
(***************************************************************************)
\* the run of worker p retries an aborted run of its user: over the list the
\* aborted run had fetched, or over any list when it had fetched none
Retry(p) ==
    /\ lastOK[req[p].user].aborted
    /\ lastOK[req[p].user].fetched \in {req[p].fetched, <<>>}

\* the messages of the fetched list that the run has to ingest
ToIngest(p) ==
    {m.gmail_id : m \in {x \in FetchedOf(p) :
                            /\ ValidEnvelope(x)
                            /\ ~existing_email(emails, x.gmail_id, req[p].user)}}

\* C21: a run that aborts leaves the tables as they were and its session
\* empty; the commit of a retry that completes adds exactly one processed
\* Email row for each valid message of the fetched list that has no row yet,
\* with exactly the tasks extracted for it, and nothing else.
C21_RetrySafe ==
    [][\A p \in SeqProcs :
          LET r == req[p]
              rows == emails' \ emails
              added == tasks' \ tasks
          IN  /\ (r.pc # "done" /\ req'[p].pc = "done" /\ req'[p].status = 500)
                 => /\ emails' = emails
                    /\ tasks' = tasks
                    /\ session'[p] = EmptySession
              /\ (r.pc = "commit" /\ req'[p].status = 200 /\ Retry(p))
                 => /\ emails \subseteq emails'
                    /\ tasks \subseteq tasks'
                    /\ rows = {mark_processed(EmailRow(x.eid, r.user, x.gmail_id), now)
                               : x \in Units(p)}
                    /\ {x.gmail_id : x \in Units(p)} = ToIngest(p)
                    /\ Len(r.units) = Cardinality(ToIngest(p))
                    /\ Cardinality(rows) = Len(r.units)
                    /\ \A t \in added : \E x \in Units(p) : t.email_id = x.eid
                    /\ \A x \in Units(p) :
                          Cardinality(TasksOf(added, x.eid)) = x.n]_vars

\* a retry over the list of the aborted run has completed and persisted a
\* message with a task
C21_Witness ==
    \E p \in SeqProcs :
        /\ Succeeded(p)
        /\ lastOK[req[p].user].aborted
        /\ lastOK[req[p].user].fetched = req[p].fetched
        /\ \E x \in Units(p) : x.n > 0 /\ UnitPersisted(p, x)

(***************************************************************************)
(* The counts of the response (SpecCount).                                 *)
(***************************************************************************)
\* C22: when a run commits and returns 200, emails_processed is the number
\* of Email rows and tasks_created the number of Task rows the commit adds.
C22_CountsAreRows ==
    [][\A p \in SeqProcs :
          (req[p].pc = "commit" /\ req'[p].status = 200)
          => /\ req'[p].processed_count = Cardinality(emails' \ emails)
             /\ req'[p].tasks_created = Cardinality(tasks' \ tasks)]_vars

\* a run has returned 200 after it skipped an invalid message and dropped a
\* candidate of the message it ingested
C22_Witness ==
    \E p \in SeqProcs :
        /\ Succeeded(p)
        /\ Len(req[p].fetched) = 2
        /\ \E m \in FetchedOf(p) : ~ValidEnvelope(m)
        /\ req[p].processed_count = 1
        /\ \E x \in Units(p) :
              /\ x.n = 1
              /\ Len(x.items) = 2
              /\ req[p].tasks_created = 1
              /\ Cardinality(TasksOf(tasks, x.eid)) = 1

(***************************************************************************)
(* Termination and timeouts (SpecLive).                                    *)
(***************************************************************************)
\* the run of worker p has been admitted and has not returned
InFlight(p) == req[p].pc \notin {"idle", "done"}

\* C23: every admitted run reaches a terminal state, and a run in which an
\* external call timed out ends as a run whose call met a provider error:
\* aborted, with status 500.
C23_BoundedCalls ==
    /\ \A p \in SeqProcs : [](InFlight(p) => <>Done(p))
    /\ [](\A p \in SeqProcs :
            (Done(p) /\ "ai_timeout" \in req[p].ext) => req[p].status = 500)

(***************************************************************************)
(* Writers of the credential (SpecCred).                                   *)
(***************************************************************************)
\* C24: no step replaces the stored access token of a user by one that
\* expires earlier.
C24_FresherKept ==
    [][\A u \in Users :
          (users[u].gmail_token_expiry # NoExpiry
           /\ users'[u].gmail_token_expiry # NoExpiry)
          => users'[u].gmail_token_expiry >= users[u].gmail_token_expiry]_vars

(***************************************************************************)
(* extract_tasks as a function (SpecParse).                                *)
(***************************************************************************)
\* an element from which a task can be made: an object with a description
\* that is a string with a character other than whitespace
ValidElement(e) ==
    /\ e.type = "dict"
    /\ e.description.type = "str"
    /\ e.description.core > 0

\* the elements of the JSON array the text holds, bare or inside a json fence
ArrayOf(response) ==
    IF response.kind = "array" THEN response.items
    ELSE IF /\ response.kind = "text"
            /\ response.type = "array"
            /\ response.open \in {"", "fence json"}
    THEN response.items
    ELSE <<>>

\* C25: extract_tasks does not raise and returns a list of tasks, each with
\* a non-empty description, a priority and a category of the vocabularies;
\* the list is empty when the completion holds no valid element.
C25_NeverRaises ==
    last.op = "extract_tasks"
    => /\ ~last.result.raised
       /\ \A i \in 1..Len(last.result.tasks) :
             LET t == last.result.tasks[i]
             IN  /\ t.description.type = "str" /\ len(t.description) > 0
                 /\ t.priority \in Priorities
                 /\ t.category \in Categories
       /\ (\A i \in 1..Len(ArrayOf(last.response)) :
               ~ValidElement(ArrayOf(last.response)[i]))
          => last.result.tasks = <<>>

\* extract_tasks was given an array inside a json fence with an element that
\* is no object and a valid one, and has returned the one task
C25_Witness ==
    /\ last.op = "extract_tasks"
    /\ last.response = Text("fence json", "array", <<NotAnObject, GoodTask>>, "fence")
    /\ Len(last.result.tasks) = 1

(***************************************************************************)
(* Body extraction (SpecBody).                                             *)
(***************************************************************************)
\* the parts of the payload
PartsOf(payload) == {payload.parts[i] : i \in 1..Len(payload.parts)}

\* every part has its mimeType and data that can be decoded, if any
WellFormed(payload) ==
    \A part \in PartsOf(payload) : part.mimeType # Absent /\ part.data # "bad"

\* C26: for a multipart payload with a text/plain part with data, the body
\* is the decoded content of such a part, in whatever order the parts come;
\* the stripped HTML is returned only when there is no text/plain part.
C26_PlainPreferred ==
    (last.op = "_extract_body" /\ last.payload.multipart /\ WellFormed(last.payload))
    => /\ (\E part \in PartsOf(last.payload) :
              part.mimeType = "text/plain" /\ part.data # Absent)
          => /\ last.result.text = "decoded"
             /\ \E part \in PartsOf(last.payload) :
                    part.mimeType = "text/plain" /\ part.data = last.result.data
       /\ last.result.text = "stripped"
          => ~\E part \in PartsOf(last.payload) : part.mimeType = "text/plain"

(***************************************************************************)
(* Isolation of the candidates (SpecTasks).                                *)
(***************************************************************************)
\* C27: in a run that returned 200, for every message for which the AI
\* returned an array, every candidate with a non-empty description within
\* the cap has a tasks row, whatever the other elements of the array are.
C27_CandidateIsolated ==
    \A p \in SeqProcs : Succeeded(p) =>
        \A x \in Units(p) : ~x.failed =>
            \A i \in 1..Len(x.items) :
                WithinCap(x.items[i]) => RowsFor(x.eid, x.items[i]) # {}

(***************************************************************************)
(* The rows a run finds (SpecFrame).                                       *)
(***************************************************************************)
\* C28: no step removes or changes an emails row, so that processed and
\* processed_at of a row are set once, before the row is committed; a step
\* of process_emails removes or changes no tasks row.
C28_RowsKept ==
    [][/\ \A e \in emails : e \in emails'
       /\ \A e \in emails' : e.processed /\ e.processed_at # NoTime
       /\ req' # req => \A t \in tasks : t \in tasks']_vars

\* a run has committed a message at time 1 next to the row of time 0 of an
\* earlier run, which has a completed task
C28_Witness ==
    \E p \in SeqProcs :
        /\ Succeeded(p)
        /\ \E x \in Units(p) : \E e \in emails : e.id = x.eid /\ e.processed_at = 1
        /\ \E e \in emails :
              /\ e.processed_at = 0
              /\ e.user_id = req[p].user
              /\ \E t \in TasksOf(tasks, e.id) : t.completed /\ t.completed_at = 0

(***************************************************************************)
(* One commit for the run (SpecTwice).                                     *)
(***************************************************************************)
\* C29: a step of a run changes the tables only if it is the commit after
\* the last message, which returns 200 and writes all the rows of the
\* session; a step that ends the run with an error after the fetch leaves
\* the tables as they were and the session empty.
C29_AllOrNothing ==
    [][\A p \in SeqProcs :
          LET r == req[p]
          IN  /\ (req'[p] # r /\ (emails' # emails \/ tasks' # tasks))
                 => /\ r.pc = "commit"
                    /\ r.idx > Len(r.fetched)
                    /\ req'[p].status = 200
                    /\ emails' = emails \cup session[p].emails
                    /\ tasks \subseteq tasks'
                    /\ Cardinality(tasks' \ tasks) = Len(session[p].tasks)
              /\ (r.pc \in {"check", "insert", "extract", "commit"}
                  /\ req'[p].status = 500)
                 => /\ emails' = emails
                    /\ tasks' = tasks
                    /\ session'[p] = EmptySession]_vars

\* a run that had ingested a message with a task has ended with an error,
\* and no row of that message is in the tables
C29_Witness ==
    \E p \in SeqProcs :
        /\ Done(p)
        /\ req[p].status = 500
        /\ req[p].error \in {"IntegrityError", "OperationalError"}
        /\ \E x \in Units(p) :
              /\ x.n > 0
              /\ ~existing_email(emails, x.gmail_id, req[p].user)
              /\ TasksOf(tasks, x.eid) = {}

(***************************************************************************)
(* Admissions and outcomes (SpecAdmit).                                    *)
(***************************************************************************)
\* the requests of user u that passed the gate within the window before now
AdmittedWithin(u) == Len(Recent(calls[u]))

\* C30: a request of a user arrives after LIMIT requests of that user have
\* passed the gate within the window, however they were answered, exactly
\* when it is answered 429.
C30_AdmissionConsumed ==
    [][\A p \in SeqProcs :
          (req[p].pc = "idle" /\ req'[p].pc # "idle")
          => (AdmittedWithin(req'[p].user) >= LIMIT <=> req'[p].status = 429)]_vars

\* a request was answered 429 after LIMIT requests of the user within the
\* window, of which one was answered 400, one 500, and none 200
C30_Witness ==
    \E p \in SeqProcs :
        /\ Done(p)
        /\ req[p].status = 429
        /\ AdmittedWithin(req[p].user) = LIMIT
        /\ \E i, j \in 1..Len(calls[req[p].user]) :
              /\ calls[req[p].user][i].status = 400
              /\ calls[req[p].user][j].status = 500
        /\ \A i \in 1..Len(calls[req[p].user]) :
              calls[req[p].user][i].status # 200 /\ calls[req[p].user][i].t >= now - WINDOW

====
